---- MODULE Spec2Model ----
(***************************************************************************)
(* Model of the trace-capture pipeline of manul_tracer:                    *)
(*   - TracedTransport.handle_request and LogResponse (transport.py),      *)
(*   - the request/response parsers (parsers.py),                          *)
(*   - TraceRecord and its status mutators (models.py),                    *)
(*   - the earlier revision of handle_request (tracer.py).                 *)
(* Bytes are modelled as tokens (strings); a body is a sequence of tokens. *)
(***************************************************************************)
EXTENDS Integers, Sequences, FiniteSets, TLC

\* ------------------------------------------------------------------------
\* Bounds of the model
\* ------------------------------------------------------------------------
\* number of handle_request calls explored on one transport
MaxCalls == 1
\* largest chunk_size a caller passes to iter_bytes besides the default
MaxChunk == 8
\* number of status mutator calls explored on one earlier-revision record
MaxMarks == 3
\* number of iter_bytes() generators explored on one response
MaxIters == 1
\* number of handle_request calls explored in one session when the responses
\* are left unconsumed
MaxSessionCalls == 2
MaxLines == 3
MaxTraceIds == 2
MaxThreads == 2
\* number of TracedTransport instances writing to one repository, and number
\* of handle_request calls explored on each of them
MaxTransports == 2
MaxInstanceCalls == 2
\* number of distinct messages a stored conversation is made of
MaxMessages == 2
\* number of session ids in the sessions table
MaxSessionIds == 2

\* ------------------------------------------------------------------------
\* Python values
\* ------------------------------------------------------------------------
\* None for integer-valued fields
None == -1
\* None for string-valued fields (finish_reason, error_category, ...)
NoneStr == "None"
\* A text (a Python str that is built, joined or compared by content) is the
\* sequence of its fragments: "" is <<>>, "hello" is <<"hello">>, and
\* "he" + "llo" is <<"he", "llo">>.  None for text-valued fields:
NoneText == <<NoneStr>>

\* Python truthiness of an optional text: neither None nor ""
Truthy(text) == text /= NoneText /\ text /= <<>>

\* default chunk_size of LogResponse.iter_bytes
DefaultChunkSize == 1024

RECURSIVE Concat(_)
\* b"".join(chunks)
Concat(chunks) ==
    IF chunks = <<>> THEN <<>> ELSE Head(chunks) \o Concat(Tail(chunks))

IsPrefix(s, t) == Len(s) <= Len(t) /\ SubSeq(t, 1, Len(s)) = s

\* ------------------------------------------------------------------------
\* Requests
\* ------------------------------------------------------------------------
\* a conversation turn as it appears in the request JSON
ReqMsg(role, content) == [role |-> role, content |-> content]

\* the lists of messages a request body may carry
RequestConversations ==
    { <<ReqMsg("user", <<"hi">>)>>,
      <<ReqMsg("user", <<"hi">>), ReqMsg("assistant", <<"yo">>), ReqMsg("user", <<"more">>)>> }

\* request bodies: kind "notjson" (empty, or json.loads raises), "nonobject"
\* (valid JSON that is not an object, e.g. a list) and "object"
RequestBodies ==
    { [kind |-> k, messages |-> <<>>, stream |-> FALSE] : k \in {"notjson", "nonobject"} }
    \cup
    { [kind |-> "object", messages |-> m, stream |-> FALSE] : m \in RequestConversations }
    \cup
    { [kind |-> "object", messages |-> <<ReqMsg("user", <<"hi">>)>>, stream |-> TRUE] }

\* a request: whether its URL contains "openai.com", and its body
Requests == [openai : BOOLEAN, body : RequestBodies]

\* parse_openai_request: the parsed JSON value, or {} when the body is empty
\* or json.loads raises (the exception is swallowed)
parse_openai_request(request) ==
    CASE request.body.kind = "object" ->
            [isDict |-> TRUE, messages |-> request.body.messages,
             stream |-> request.body.stream]
      [] request.body.kind = "nonobject" ->
            [isDict |-> FALSE, messages |-> <<>>, stream |-> FALSE]
      [] OTHER ->
            [isDict |-> TRUE, messages |-> <<>>, stream |-> FALSE]

\* is_streaming_request: request_body.get('stream', False) is True
is_streaming_request(request_dict) == request_dict.stream = TRUE

extract_conversation_messages_Reversed(request_dict) ==
    [i \in 1..Len(request_dict.messages) |->
        [role |-> request_dict.messages[Len(request_dict.messages) + 1 - i].role,
         content |-> request_dict.messages[Len(request_dict.messages) + 1 - i].content]]

\* extract_conversation_messages: one {role, content} dict per input message
extract_conversation_messages(request_dict) ==
    [i \in 1..Len(request_dict.messages) |->
        [role |-> request_dict.messages[i].role,
         content |-> request_dict.messages[i].content]]

\* str(uuid.uuid4()), the default of Message.message_id: a fresh value at
\* every call, named by the place that drew it (message i of trace n)
uuid4(n, i) == <<n, i>>

\* Message(**msg): message_id takes its default, token_count starts unset
Message(message_id, role, content) ==
    [message_id |-> message_id, role |-> role, content |-> content, token_count |-> None]

\* ------------------------------------------------------------------------
\* Response bodies and their JSON documents
\* ------------------------------------------------------------------------
\* the "usage" key of a JSON object: absent, an object with three counts, or
\* null
NoUsage ==
    [present |-> FALSE, null |-> FALSE,
     prompt_tokens |-> 0, completion_tokens |-> 0, total_tokens |-> 0]
Usage(p, c, t) ==
    [present |-> TRUE, null |-> FALSE,
     prompt_tokens |-> p, completion_tokens |-> c, total_tokens |-> t]
NullUsage ==
    [present |-> TRUE, null |-> TRUE,
     prompt_tokens |-> 0, completion_tokens |-> 0, total_tokens |-> 0]

Choice(content, finish) == [content |-> content, finish_reason |-> finish]

\* the JSON objects the upstream API answers with
ResponseDocs ==
    { [usage |-> Usage(5, 3, 8), choices |-> <<Choice(<<"hello">>, "stop")>>],
      [usage |-> Usage(5, 3, 8), choices |-> <<Choice(<<>>, "stop")>>],
      [usage |-> Usage(None, 3, 8), choices |-> <<Choice(<<"hello">>, "stop")>>],
      [usage |-> NoUsage, choices |-> <<>>] }

\* a JSON object whose usage reports a negative count
OddDocs ==
    { [usage |-> Usage(-2, 3, 1), choices |-> <<Choice(<<"hello">>, "stop")>>] }

\* the JSON objects json.loads can read
JsonDocs == ResponseDocs \cup OddDocs

\* the token for an integer-or-null JSON value
NumTok(n) ==
    CASE n = None -> "null"
      [] n = -2 -> "-2"
      [] n = 1 -> "1"
      [] n = 0 -> "0"
      [] n = 3 -> "3"
      [] n = 5 -> "5"
      [] n = 8 -> "8"
      [] OTHER -> "9"

\* the token for a JSON string-or-null value of at most one fragment
TextTok(text) ==
    IF text = NoneText THEN "null" ELSE IF text = <<>> THEN "''" ELSE text[1]

\* the bytes of a JSON document on the wire
Encode(doc) ==
    <<"{">>
    \o (IF doc.usage.present
        THEN <<"usage", NumTok(doc.usage.prompt_tokens),
               NumTok(doc.usage.completion_tokens), NumTok(doc.usage.total_tokens)>>
        ELSE <<>>)
    \o (IF doc.choices /= <<>>
        THEN <<"choices", TextTok(doc.choices[1].content), doc.choices[1].finish_reason>>
        ELSE <<>>)
    \o <<"}">>

\* json.loads on response bytes: the document, or a JSONDecodeError
json_loads(content) ==
    IF \E d \in JsonDocs : Encode(d) = content
    THEN [ok |-> TRUE, doc |-> CHOOSE d \in JsonDocs : Encode(d) = content]
    ELSE [ok |-> FALSE, doc |-> [usage |-> NoUsage, choices |-> <<>>]]

\* bodies of successful responses: zero-length, not JSON, or a document
SuccessBodies == {<<>>, <<"<html>">>} \cup {Encode(d) : d \in ResponseDocs}

\* bodies whose usage reports a negative count
OddBodies == {Encode(d) : d \in OddDocs}

\* HTTP statuses of the error responses of the model
ErrorStatuses == {400, 429, 503}

\* exceptions the wrapped transport raises
TransportExceptions == {"ConnectError", "ReadTimeout"}

\* bodies of error responses; "0xff" stands for bytes that are not UTF-8
ErrorBodies == {<<"context_length_exceeded">>, <<"0xff">>}

\* ------------------------------------------------------------------------
\* Streaming bodies: lines "data: {...}" separated by newlines
\* ------------------------------------------------------------------------
\* a JSON null where a text is expected ("content": null)
NullText == <<"null">>

\* one streamed chunk object: its first choice's delta content (NoneText
\* when the key is absent, NullText when it is null) and finish_reason
\* (NoneStr when absent), and its usage key
StreamEvent(delta, finish, usage) == [delta |-> delta, finish |-> finish, usage |-> usage]

\* the chunk objects of the model: content deltas, usage chunks, a chunk
\* with "usage": null and a chunk with "content": null
StreamEvents ==
    { StreamEvent(<<"he">>, NoneStr, NoUsage),
      StreamEvent(<<"llo">>, "stop", Usage(5, 3, 8)),
      StreamEvent(NoneText, NoneStr, Usage(3, 5, 8)),
      StreamEvent(<<"!">>, NoneStr, NullUsage),
      StreamEvent(NullText, NoneStr, NoUsage) }

\* payloads that are valid JSON but no container: `'choices' in chunk_data`
\* raises TypeError on them
JsonScalars == {<<"5">>}

\* the JSON text of a chunk object
EncodeEvent(ev) ==
    <<"{">>
    \o (IF ev.delta /= NoneText THEN <<"delta", TextTok(ev.delta)>> ELSE <<>>)
    \o (IF ev.finish /= NoneStr THEN <<"finish_reason", ev.finish>> ELSE <<>>)
    \o (IF ~ev.usage.present THEN <<>>
        ELSE IF ev.usage.null THEN <<"usage", "null">>
        ELSE <<"usage", NumTok(ev.usage.prompt_tokens),
               NumTok(ev.usage.completion_tokens), NumTok(ev.usage.total_tokens)>>)
    \o <<"}">>

\* json.loads on the text after "data: ": a chunk object, another JSON
\* value (object FALSE), or a JSONDecodeError (ok FALSE)
json_loads_event(data) ==
    IF \E ev \in StreamEvents : EncodeEvent(ev) = data
    THEN [ok |-> TRUE, object |-> TRUE,
          ev |-> CHOOSE ev \in StreamEvents : EncodeEvent(ev) = data]
    ELSE [ok |-> data \in JsonScalars, object |-> FALSE,
          ev |-> StreamEvent(NoneText, NoneStr, NoUsage)]

\* one line of a streaming body
DataLine(payload) == <<"data: ">> \o payload \o <<"\n">>

DoneLine == DataLine(<<"[DONE]">>)

\* bodies of streaming responses
StreamBodies ==
    { DataLine(EncodeEvent(StreamEvent(<<"he">>, NoneStr, NoUsage)))
        \o DataLine(EncodeEvent(StreamEvent(<<"llo">>, "stop", Usage(5, 3, 8))))
        \o DoneLine }

RECURSIVE SplitLines(_, _)
\* text.split('\n'): cur is the line being collected
SplitLines(text, cur) ==
    IF text = <<>> THEN <<cur>>
    ELSE IF Head(text) = "\n" THEN <<cur>> \o SplitLines(Tail(text), <<>>)
    ELSE SplitLines(Tail(text), Append(cur, Head(text)))

\* text.strip(): the bodies of the model carry at most one trailing newline
Strip(text) ==
    IF text /= <<>> /\ text[Len(text)] = "\n" THEN SubSeq(text, 1, Len(text) - 1) ELSE text

\* the defaults parse_openai_response starts from
EmptyResult ==
    [prompt_tokens |-> 0, completion_tokens |-> 0, total_tokens |-> 0,
     finish_reason |-> NoneStr, content |-> NoneText, assistant_content |-> NoneText]

\* one "data: " line of the loop: parsed is json.loads(data_str), skipped on
\* a JSONDecodeError.  On a value that is no container the membership test
\* raises TypeError, which only the outer "except Exception" catches: the
\* loop is left (acc.raised).
StreamLineStep(acc, parsed) ==
    LET ev == parsed.ev
        a1 == IF ev.finish /= NoneStr
              THEN [acc EXCEPT !.result.finish_reason = ev.finish] ELSE acc
        a2 == IF ev.delta /= NoneText
              THEN [a1 EXCEPT !.chunks = Append(@, ev.delta)] ELSE a1
        a3 == IF ev.usage.present
              THEN [a2 EXCEPT !.usage_data = ev.usage] ELSE a2
    IN IF ~parsed.ok THEN acc
       ELSE IF ~parsed.object THEN [acc EXCEPT !.raised = TRUE]
       ELSE a3

RECURSIVE ParseStreamLines(_, _)
\* the loop over the lines of a streaming body: acc.chunks collects the
\* deltas, acc.usage_data the last usage object, acc.result the result
ParseStreamLines(lines, acc) ==
    IF lines = <<>> \/ acc.raised THEN acc
    ELSE IF Head(lines) = <<>> \/ Head(Head(lines)) /= "data: "
    THEN ParseStreamLines(Tail(lines), acc)
    ELSE IF Tail(Head(lines)) = <<"[DONE]">> THEN ParseStreamLines(Tail(lines), acc)
    ELSE ParseStreamLines(Tail(lines),
                          StreamLineStep(acc, json_loads_event(Tail(Head(lines)))))

\* the usage block with total_tokens taken from the wrong key
WithUsage_WrongTotal(result, usage) ==
    [result EXCEPT !.prompt_tokens = usage.prompt_tokens,
                   !.completion_tokens = usage.completion_tokens,
                   !.total_tokens = usage.completion_tokens]

\* the usage block shared by both branches: usage.get(key, 0)
WithUsage(result, usage) ==
    [result EXCEPT !.prompt_tokens = usage.prompt_tokens,
                   !.completion_tokens = usage.completion_tokens,
                   !.total_tokens = usage.total_tokens]

\* ''.join(chunks) raises TypeError when a collected delta is None
JoinRaises(chunks) == \E i \in 1..Len(chunks) : chunks[i] = NullText

\* the streaming branch after its loop: the joined chunks and the usage
\* ("if usage_data:" skips an absent and a null usage).  When the loop or
\* the join raised, the outer except returns the result as it stands.
StreamingResult(acc) ==
    LET r1 == IF acc.chunks /= <<>>
              THEN [acc.result EXCEPT !.assistant_content = Concat(acc.chunks),
                                      !.content = Concat(acc.chunks)]
              ELSE acc.result
    IN IF acc.raised \/ JoinRaises(acc.chunks) THEN acc.result
       ELSE IF acc.usage_data.present /\ ~acc.usage_data.null
       THEN WithUsage(r1, acc.usage_data)
       ELSE r1

\* the non-streaming branch on the outcome of json.loads; a JSONDecodeError
\* is caught and the defaults are returned, and so is the AttributeError of
\* usage.get on a null usage
JsonResult(parsed) ==
    LET doc == parsed.doc
        r1 == IF doc.usage.present THEN WithUsage(EmptyResult, doc.usage) ELSE EmptyResult
    IN IF ~parsed.ok \/ (doc.usage.present /\ doc.usage.null) THEN EmptyResult
       ELSE IF doc.choices /= <<>>
       THEN [r1 EXCEPT !.finish_reason = doc.choices[1].finish_reason,
                       !.assistant_content = doc.choices[1].content,
                       !.content = doc.choices[1].content]
       ELSE r1

\* parse_openai_response on the captured bytes
parse_openai_response(content, is_streaming) ==
    IF content = <<>> THEN EmptyResult
    ELSE IF is_streaming
    THEN StreamingResult(
             ParseStreamLines(SplitLines(Strip(content), <<>>),
                 [result |-> EmptyResult, chunks |-> <<>>, usage_data |-> NoUsage,
                  raised |-> FALSE]))
    ELSE JsonResult(json_loads(content))

\* ------------------------------------------------------------------------
\* TraceRecord (models.py)
\* ------------------------------------------------------------------------
\* TraceRecord(session_id="default", trace_id=f"trace_{n}", ...): the fields
\* the pipeline writes; trace_completed_at and trace_updated_at are modelled
\* by whether they are set.  The constructor call of handle_request also
\* passes provider="openai", a keyword the dataclass of models.py does not
\* declare; the record is taken as constructed, so that the rest of
\* handle_request can be examined.
NewTraceRecord(n) ==
    [trace_id |-> n, session_id |-> "default", stream |-> FALSE,
     full_conversation |-> <<>>,
     prompt_tokens |-> None, completion_tokens |-> None, total_tokens |-> None,
     finish_reason |-> NoneStr, assistant_response |-> NoneText,
     success |-> TRUE, error_code |-> NoneStr, error_message |-> NoneText,
     error_category |-> NoneStr,
     data_completeness_score |-> None, missing_fields |-> <<>>,
     trace_status |-> "pending",
     trace_updated_at |-> FALSE, trace_completed_at |-> FALSE]

\* the declared fields of the dataclass that the model carries, in the order
\* of their declaration (assistant_response is an attribute set by the
\* transport, not a declared field)
DeclaredFields ==
    <<"trace_id", "session_id", "stream", "full_conversation", "finish_reason",
      "prompt_tokens", "completion_tokens", "total_tokens",
      "success", "error_code", "error_message", "error_category",
      "data_completeness_score", "missing_fields", "trace_status",
      "trace_updated_at", "trace_completed_at">>

\* "value is not None and value != [] and value != ''" for the field of a
\* record
Populated(trace, field_name) ==
    CASE field_name \in {"prompt_tokens", "completion_tokens", "total_tokens",
                         "data_completeness_score"}
            -> trace[field_name] /= None
      [] field_name \in {"session_id", "finish_reason", "error_code", "error_category"}
            -> trace[field_name] /= NoneStr /\ trace[field_name] /= ""
      [] field_name = "error_message"
            -> trace.error_message /= NoneText /\ trace.error_message /= <<>>
      [] field_name \in {"full_conversation", "missing_fields"}
            -> trace[field_name] /= <<>>
      [] field_name \in {"trace_updated_at", "trace_completed_at"}
            -> trace[field_name]
      [] OTHER -> TRUE

\* the number of populated fields among the first k declared fields
RECURSIVE PopulatedFields(_, _)
PopulatedFields(trace, k) ==
    IF k = 0 THEN 0
    ELSE PopulatedFields(trace, k - 1)
         + (IF Populated(trace, DeclaredFields[k]) THEN 1 ELSE 0)

\* TraceRecord.calculate_completeness_score: populated_fields /
\* len(all_fields); the score is represented by its numerator
calculate_completeness_score(trace) == PopulatedFields(trace, Len(DeclaredFields))

\* TraceRecord.get_missing_fields
get_missing_fields(trace) ==
    SelectSeq(DeclaredFields, LAMBDA field_name : ~Populated(trace, field_name))

\* TraceRecord.update_completeness: the three assignments in their order
update_completeness(trace) ==
    LET scored == [trace EXCEPT !.data_completeness_score =
                                    calculate_completeness_score(trace)]
    IN [scored EXCEPT !.missing_fields = get_missing_fields(scored),
                      !.trace_updated_at = TRUE]

\* TraceRecord.mark_completed
mark_completed(trace) ==
    update_completeness([trace EXCEPT !.trace_status = "complete",
                                      !.trace_completed_at = TRUE])

\* TraceRecord.mark_error
mark_error(trace, error_code, error_message, error_category) ==
    update_completeness([trace EXCEPT !.success = FALSE,
                                      !.error_code = error_code,
                                      !.error_message = error_message,
                                      !.error_category = error_category,
                                      !.trace_status = "error",
                                      !.trace_completed_at = TRUE])

\* the index of the last assistant message, 0 when there is none
LastAssistant(messages) ==
    LET idx == {i \in 1..Len(messages) : messages[i].role = "assistant"}
    IN IF idx = {} THEN 0 ELSE CHOOSE i \in idx : \A j \in idx : j <= i

\* populate_assistant_message_tokens
populate_assistant_message_tokens(messages, completion_tokens) ==
    IF LastAssistant(messages) /= 0 /\ completion_tokens > 0
    THEN [messages EXCEPT ![LastAssistant(messages)].token_count = completion_tokens]
    ELSE messages

\* str.lower() on one fragment of a text, and on a text
LowerWord(word) ==
    CASE word = "CONTEXT_LENGTH_EXCEEDED" -> "context_length_exceeded"
      [] word = "Invalid_Request" -> "invalid_request"
      [] OTHER -> word

Lower(text) == [i \in 1..Len(text) |-> LowerWord(text[i])]

categorize_error_MessageFirst(status_code, error_message) ==
    LET contains(word) == \E i \in 1..Len(error_message) : Lower(error_message)[i] = word
    IN CASE status_code >= 400 /\ contains("context_length_exceeded") ->
               "ContextLengthExceededError"
         [] status_code = 429 -> "RateLimitError"
         [] status_code = 401 -> "AuthenticationError"
         [] status_code = 404 -> "NotFoundError"
         [] status_code >= 500 -> "ServerError"
         [] status_code \in 400..499 ->
               IF contains("invalid_request") THEN "InvalidRequestError"
               ELSE "ClientError"
         [] OTHER -> "UnknownError"

\* categorize_error(status_code, error_message); the lowered message is
\* searched for a fragment
categorize_error(status_code, error_message) ==
    LET contains(word) == \E i \in 1..Len(error_message) : Lower(error_message)[i] = word
    IN CASE status_code = 429 -> "RateLimitError"
         [] status_code = 401 -> "AuthenticationError"
         [] status_code = 404 -> "NotFoundError"
         [] status_code >= 500 -> "ServerError"
         [] status_code \in 400..499 /\ status_code \notin {401, 404, 429} ->
               IF contains("context_length_exceeded") THEN "ContextLengthExceededError"
               ELSE IF contains("invalid_request") THEN "InvalidRequestError"
               ELSE "ClientError"
         [] OTHER -> "UnknownError"

\* ------------------------------------------------------------------------
\* LogResponse._complete_trace (transport.py)
\* ------------------------------------------------------------------------
\* one repository.create(trace) call as the repository sees it
CreateEntry(trace, via, raised) == [trace |-> trace, via |-> via, raised |-> raised]

\* the three "stats[...] += trace.<tokens>" statements: a None operand raises
\* TypeError and leaves the later counters untouched
AddTokenStats_Subtract(st, trace) ==
    IF None \in {trace.prompt_tokens, trace.completion_tokens, trace.total_tokens}
    THEN [stats |-> st, err |-> "TypeError"]
    ELSE [stats |-> [st EXCEPT !.total_prompt_tokens = @ - trace.prompt_tokens,
                               !.total_completion_tokens = @ - trace.completion_tokens,
                               !.total_tokens = @ - trace.total_tokens],
          err |-> NoneStr]

AddTokenStats(st, trace) ==
    LET s1 == [st EXCEPT !.total_prompt_tokens = @ + trace.prompt_tokens]
        s2 == [s1 EXCEPT !.total_completion_tokens = @ + trace.completion_tokens]
        s3 == [s2 EXCEPT !.total_tokens = @ + trace.total_tokens]
    IN CASE trace.prompt_tokens = None -> [stats |-> st, err |-> "TypeError"]
         [] trace.completion_tokens = None -> [stats |-> s1, err |-> "TypeError"]
         [] trace.total_tokens = None -> [stats |-> s2, err |-> "TypeError"]
         [] OTHER -> [stats |-> s3, err |-> NoneStr]

\* _complete_trace without its try/except: the exception leaves it
CompleteTraceEscapes_Reraise(err) == err

\* "except Exception as e: logger.error(...)": what leaves _complete_trace
\* when its body raised err
CompleteTraceEscapes(err) == NoneStr

\* the guard of _complete_trace: a trace record, a transport and
\* non-empty captured content
CompleteTraceGuard(captured) == captured /= <<>>

\* the record of what the finalize step has done, after one more outcome
\* a finalize step that did not run
NoFinalize(t, st) ==
    [trace |-> t, stats |-> st, creates |-> <<>>, ran |-> FALSE,
     stat_updates |-> 0, appends |-> 0, err |-> NoneStr, escapes |-> NoneStr]

\* the body of _complete_trace after the statistics update raised err
CompleteTraceRaised(t1, st, added, err) ==
    [trace |-> t1, stats |-> added.stats, creates |-> <<>>, ran |-> TRUE,
     stat_updates |-> IF added.stats /= st THEN 1 ELSE 0, appends |-> 0,
     err |-> err, escapes |-> CompleteTraceEscapes(err)]

\* the body of _complete_trace from the assistant message to
\* repository.create: conv1 is the conversation after the append
CompleteTraceSaved(t1, added, appended, conv1, hasRepo, repoRaises) ==
    LET t2 == update_completeness(
                 [t1 EXCEPT !.full_conversation =
                     populate_assistant_message_tokens(conv1, t1.completion_tokens)])
        err == IF hasRepo /\ repoRaises THEN "RepositoryError" ELSE NoneStr
    IN [trace |-> t2, stats |-> added.stats,
        creates |-> IF hasRepo THEN <<CreateEntry(t2, "finalize", repoRaises)>> ELSE <<>>,
        ran |-> TRUE, stat_updates |-> 1,
        appends |-> IF appended THEN 1 ELSE 0,
        err |-> err, escapes |-> CompleteTraceEscapes(err)]

\* _complete_trace putting the assistant message in front of the conversation
CompleteTraceParsed_Prepend(t1, st, rd, added, hasRepo, repoRaises) ==
    IF added.err /= NoneStr THEN CompleteTraceRaised(t1, st, added, added.err)
    ELSE CompleteTraceSaved(t1, added, Truthy(rd.assistant_content),
             IF Truthy(rd.assistant_content)
             THEN <<Message(uuid4(t1.trace_id, Len(t1.full_conversation) + 1),
                            "assistant", rd.assistant_content)>>
                  \o t1.full_conversation
             ELSE t1.full_conversation,
             hasRepo, repoRaises)

\* the body of _complete_trace on the parsed response: t1 is the record
\* with the parsed fields, added the outcome of the statistics update
CompleteTraceParsed(t1, st, rd, added, hasRepo, repoRaises) ==
    IF added.err /= NoneStr THEN CompleteTraceRaised(t1, st, added, added.err)
    ELSE CompleteTraceSaved(t1, added, Truthy(rd.assistant_content),
             IF Truthy(rd.assistant_content)
             THEN Append(t1.full_conversation,
                         Message(uuid4(t1.trace_id, Len(t1.full_conversation) + 1),
                                 "assistant", rd.assistant_content))
             ELSE t1.full_conversation,
             hasRepo, repoRaises)

\* the record after "self.trace_record.<field> = response_data.get(...)"
WithResponseData(trace, rd) ==
    [trace EXCEPT !.prompt_tokens = rd.prompt_tokens,
                  !.completion_tokens = rd.completion_tokens,
                  !.total_tokens = rd.total_tokens,
                  !.finish_reason = rd.finish_reason,
                  !.assistant_response = rd.content]

\* the try block of _complete_trace on the parsed response rd
CompleteTraceBody(trace, st, rd, hasRepo, repoRaises) ==
    CompleteTraceParsed(WithResponseData(trace, rd), st, rd,
                        AddTokenStats(st, WithResponseData(trace, rd)),
                        hasRepo, repoRaises)

\* _complete_trace: the record, the statistics and the repository calls
\* after it, the exception its body raised (err) and the one it lets out
complete_trace(trace, st, captured, hasRepo, repoRaises) ==
    IF ~CompleteTraceGuard(captured) THEN NoFinalize(trace, st)
    ELSE CompleteTraceBody(trace, st, parse_openai_response(captured, trace.stream),
                           hasRepo, repoRaises)

\* ------------------------------------------------------------------------
\* The response object: httpx.Response state and the LogResponse overrides
\* ------------------------------------------------------------------------
RECURSIVE Slices(_, _)
\* the chunks httpx.Response.iter_bytes(chunk_size) yields for a body: pieces
\* of chunk_size bytes and a shorter last piece, none for an empty body
Slices(content, chunk_size) ==
    IF content = <<>> THEN <<>>
    ELSE IF Len(content) <= chunk_size THEN <<content>>
    ELSE <<SubSeq(content, 1, chunk_size)>>
         \o Slices(SubSeq(content, chunk_size + 1, Len(content)), chunk_size)

\* chunk sizes callers pass to iter_bytes (read() passes the default)
ChunkSizes == {MaxChunk}

\* no response object (before the first call, or the call raised)
NoResponse ==
    [kind |-> "none", status |-> 0, body |-> <<>>,
     is_stream_consumed |-> FALSE, has_content |-> FALSE,
     captured |-> <<>>, content_captured |-> FALSE,
     gen |-> "none", chunk_size |-> DefaultChunkSize, chunks |-> <<>>, pos |-> 0,
     yielded |-> <<>>, read_result |-> "none", read_bytes |-> <<>>,
     op_error |-> NoneStr]

\* LogResponse(status_code=..., stream=original_response.stream, ...)
NewLogResponse(status, body) ==
    [NoResponse EXCEPT !.kind = "wrapper", !.status = status, !.body = body]

\* the response of the wrapped transport, returned as it is; eager tells
\* whether handle_request has called read() on it
OriginalResponse(status, body, eager) ==
    [NoResponse EXCEPT !.kind = "original", !.status = status, !.body = body,
                       !.is_stream_consumed = eager, !.has_content = eager]

\* the test of LogResponse.read without "and not self._captured_content"
ReadCaptures_AnyContent(content, captured) == content /= <<>>

\* the test of LogResponse.read: "if content and not self._captured_content"
ReadCaptures(content, captured) == content /= <<>> /\ captured = <<>>

\* the test of LogResponse.iter_bytes after its loop:
\* "if not self._content_captured"
IterCompletes(content_captured) == ~content_captured

\* LogResponse.content: the captured bytes when there are any, else the
\* content of httpx.Response, which raises ResponseNotRead before a read
ContentRaises(r) == ~(r.kind = "wrapper" /\ r.captured /= <<>>) /\ ~r.has_content

Content(r) ==
    IF r.kind = "wrapper" /\ r.captured /= <<>> THEN r.captured ELSE r.body

\* ------------------------------------------------------------------------
\* State
\* ------------------------------------------------------------------------
VARIABLES
    stats,        \* TracedTransport.stats
    repository,   \* whether a repository was given to TracedTransport
    created,      \* the repository.create calls, in order
    trace,        \* the TraceRecord of the latest handle_request call
    call,         \* the latest handle_request call as its caller saw it
    resp,         \* the response object the latest call returned
    hist,         \* what the finalize step of resp has done so far; err is the
                  \* exception raised inside it during the latest operation
    legacy,       \* a TraceRecord of the earlier revision (tracer.py)
    fn,           \* the latest application of a function of parsers.py
    db,           \* the traces table of a database and the latest operation on it
    thr,          \* the threads that call handle_request at the same time
    tracer,       \* the tracer that owns the transport
    transports,   \* the TracedTransport instances that share one repository
    trace_messages, \* the trace_messages table and the latest operation on it
    sessions      \* the sessions table and the latest operation on it

vars ==
    <<stats, repository, created, trace, call, resp, hist, legacy, fn, db, thr, tracer,
      transports, trace_messages, sessions>>

\* TracedTransport.__init__
InitStats ==
    [total_requests |-> 0, total_prompt_tokens |-> 0, total_completion_tokens |-> 0,
     total_tokens |-> 0, successful_requests |-> 0, failed_requests |-> 0]

\* what the wrapped transport does with a request
WrappedOutcomes ==
    [kind : {"raise"}, exc : TransportExceptions, status : {0}, body : {<<>>}]
    \cup [kind : {"response"}, exc : {NoneStr}, status : {200},
          body : SuccessBodies \cup StreamBodies]
    \cup [kind : {"response"}, exc : {NoneStr}, status : ErrorStatuses, body : ErrorBodies]

NoCall ==
    [made |-> FALSE,
     request |-> [openai |-> FALSE, body |-> [kind |-> "notjson", messages |-> <<>>, stream |-> FALSE]],
     wrapped_calls |-> 0,
     outcome |-> [kind |-> "none", exc |-> NoneStr, status |-> 0, body |-> <<>>],
     raised |-> NoneStr, returned |-> "none",
     stats_before |-> InitStats, stats_after |-> InitStats, creates |-> 0]

NoHist ==
    [runs |-> 0, stat_updates |-> 0, appends |-> 0, creates |-> 0, err |-> NoneStr,
     reads |-> FALSE, iters |-> 0]

\* the earlier revision's record, its status history and what happened to it
NoLegacy ==
    [made |-> FALSE, trace |-> NewTraceRecord(0), statuses |-> <<"pending">>,
     marks |-> 0, raised |-> NoneStr]

\* no tracer constructed yet
NoTracer == [made |-> FALSE, session_id |-> NoneStr]

\* the threads of the model
Threads == 1..MaxThreads

\* the TracedTransport instances of the model
Transports == 1..MaxTransports

\* TracedTransport.__init__ of each instance: its own stats, and no trace yet
NewTransports == [tp \in Transports |-> [total_requests |-> 0, trace_ids |-> <<>>]]

\* an empty traces table
NoRows ==
    [rows |-> <<>>,
     last |-> [op |-> "none", trace_id |-> 0, values |-> [success |-> TRUE, total_tokens |-> 0],
               raised |-> NoneStr]]

\* an empty trace_messages table
NoLinks ==
    [links |-> {},
     last |-> [op |-> "none", trace_id |-> 0, full_conversation |-> <<>>,
               session_id |-> NoneStr]]

\* an empty sessions table
NoSessions ==
    [rows |-> <<>>,
     last |-> [op |-> "none", session_id |-> 0,
               session |-> [session_id |-> 0, session_name |-> NoneStr,
                            session_type |-> NoneStr],
               raised |-> NoneStr]]

\* no function of parsers.py applied yet
NoFn == [op |-> "none"]

Init ==
    /\ stats = InitStats
    /\ repository \in BOOLEAN
    /\ created = <<>>
    /\ trace = NewTraceRecord(0)
    /\ call = NoCall
    /\ resp = NoResponse
    /\ hist = NoHist
    /\ legacy = NoLegacy
    /\ fn = NoFn
    /\ db = NoRows
    /\ tracer = NoTracer
    /\ thr = [t \in Threads |-> [step |-> 1, phase |-> "load", tmp |-> 0, trace_id |-> 0]]
    /\ transports = NewTransports
    /\ trace_messages = NoLinks
    /\ sessions = NoSessions

\* ------------------------------------------------------------------------
\* TracedTransport.handle_request (transport.py)
\* ------------------------------------------------------------------------
\* str(e) of an exception, a text
ExcStr(exc) == <<exc>>

\* error_content.decode('utf-8') raises on bytes that are not UTF-8
DecodeFails(body) == \E i \in 1..Len(body) : body[i] = "0xff"

\* the "except Exception as e" branch: count the failure, fill the error
\* fields, save the trace, re-raise e.  A raising repository.create replaces
\* the exception that is propagated.
ExceptBranch(t, st, exc, hasRepo, repoRaises) ==
    LET t1 == update_completeness([t EXCEPT !.error_message = ExcStr(exc),
                                            !.error_category = exc,
                                            !.success = FALSE])
    IN [trace |-> t1,
        stats |-> [st EXCEPT !.failed_requests = @ + 1],
        creates |-> IF hasRepo THEN <<CreateEntry(t1, "handle_request", repoRaises)>> ELSE <<>>,
        raised |-> IF hasRepo /\ repoRaises THEN "RepositoryError" ELSE exc,
        returned |-> "none"]

\* a repository.create(trace) inside the try block that raises: the call is
\* recorded and the except branch runs on the exception
CreateRaised(t, st, hasRepo, repoRaises2) ==
    LET ex == ExceptBranch(t, st, "RepositoryError", hasRepo, repoRaises2)
    IN [ex EXCEPT !.creates = <<CreateEntry(t, "handle_request", TRUE)>> \o @]

\* the branch for status_code >= 400
ErrorResponseBranch(t, st, status, body, hasRepo, repoRaises1, repoRaises2) ==
    LET st1 == [st EXCEPT !.failed_requests = @ + 1]
        error_body == IF DecodeFails(body) THEN <<"Unable to read error response">> ELSE body
        t1 == update_completeness(
                 [t EXCEPT !.error_message = error_body,
                           !.error_category = categorize_error(status, error_body),
                           !.success = FALSE])
    IN IF hasRepo /\ repoRaises1 THEN CreateRaised(t1, st1, hasRepo, repoRaises2)
       ELSE [trace |-> t1, stats |-> st1,
             creates |-> IF hasRepo THEN <<CreateEntry(t1, "handle_request", FALSE)>> ELSE <<>>,
             raised |-> NoneStr, returned |-> "original"]

\* the branch for a successful response of an OpenAI endpoint: the response
\* is wrapped and the trace is completed when its body is consumed
TracedBranch(t, st) ==
    [trace |-> t, stats |-> [st EXCEPT !.successful_requests = @ + 1],
     creates |-> <<>>, raised |-> NoneStr, returned |-> "wrapper"]

\* the branch for a successful response of another endpoint
PassThroughBranch(t, st, hasRepo, repoRaises1, repoRaises2) ==
    LET st1 == [st EXCEPT !.successful_requests = @ + 1]
        t1 == update_completeness(t)
    IN IF hasRepo /\ repoRaises1 THEN CreateRaised(t1, st1, hasRepo, repoRaises2)
       ELSE [trace |-> t1, stats |-> st1,
             creates |-> IF hasRepo THEN <<CreateEntry(t1, "handle_request", FALSE)>> ELSE <<>>,
             raised |-> NoneStr, returned |-> "original"]

\* should_trace: 'openai.com' in str(request.url)
ShouldTrace(request) == request.openai

\* handle_request up to its return or raise
HandleRequestResult(request, outcome, st, hasRepo, repoRaises1, repoRaises2) ==
    LET n == st.total_requests + 1
        st0 == [st EXCEPT !.total_requests = n]
        request_dict == parse_openai_request(request)
        messages_data == extract_conversation_messages(request_dict)
        t0 == [NewTraceRecord(n) EXCEPT
                 !.stream = is_streaming_request(request_dict),
                 !.full_conversation =
                     [i \in 1..Len(messages_data) |->
                         Message(uuid4(n, i), messages_data[i].role, messages_data[i].content)]]
    IN IF ~request_dict.isDict
       THEN \* request_dict.get(...) raises AttributeError before the try block
            [trace |-> NewTraceRecord(n), stats |-> st0, creates |-> <<>>,
             raised |-> "AttributeError", returned |-> "none", wrapped_calls |-> 0]
       ELSE LET r == CASE outcome.kind = "raise" ->
                            ExceptBranch(t0, st0, outcome.exc, hasRepo, repoRaises1)
                       [] outcome.status >= 400 ->
                            ErrorResponseBranch(t0, st0, outcome.status, outcome.body,
                                                hasRepo, repoRaises1, repoRaises2)
                       [] ShouldTrace(request) -> TracedBranch(t0, st0)
                       [] OTHER -> PassThroughBranch(t0, st0, hasRepo, repoRaises1, repoRaises2)
            IN [trace |-> r.trace, stats |-> r.stats, creates |-> r.creates,
                raised |-> r.raised, returned |-> r.returned, wrapped_calls |-> 1]

HandleRequestCall(limit, request, outcome, repoRaises1, repoRaises2) ==
    /\ stats.total_requests < limit
    /\ \E r \in {HandleRequestResult(request, outcome, stats, repository,
                                      repoRaises1, repoRaises2)} :
          /\ stats' = r.stats
          /\ trace' = r.trace
          /\ created' = created \o r.creates
          /\ call' = [made |-> TRUE, request |-> request,
                      wrapped_calls |-> r.wrapped_calls,
                      outcome |-> IF r.wrapped_calls = 0 THEN NoCall.outcome ELSE outcome,
                      raised |-> r.raised, returned |-> r.returned,
                      stats_before |-> stats, stats_after |-> r.stats,
                      creates |-> Len(r.creates)]
          /\ resp' = CASE r.returned = "wrapper" -> NewLogResponse(outcome.status, outcome.body)
                       [] r.returned = "original" ->
                            OriginalResponse(outcome.status, outcome.body, outcome.status >= 400)
                       [] OTHER -> NoResponse
    /\ hist' = NoHist
    /\ UNCHANGED <<repository, legacy, fn, db, thr, tracer, transports, trace_messages, sessions>>

\* one handle_request call on the transport
HandleRequest(request, outcome, repoRaises1, repoRaises2) ==
    HandleRequestCall(MaxCalls, request, outcome, repoRaises1, repoRaises2)

\* one handle_request call of a session whose responses nobody consumes
SessionCall(request, outcome, repoRaises1, repoRaises2) ==
    HandleRequestCall(MaxSessionCalls, request, outcome, repoRaises1, repoRaises2)

\* ------------------------------------------------------------------------
\* The caller consumes the response: read() and iter_bytes()
\* ------------------------------------------------------------------------
\* the record of what the finalize step has done, after one more outcome
HistAfter(h, fin) ==
    [h EXCEPT !.runs = @ + (IF fin.ran THEN 1 ELSE 0),
              !.stat_updates = @ + fin.stat_updates,
              !.appends = @ + fin.appends,
              !.creates = @ + Len(fin.creates),
              !.err = IF fin.err /= NoneStr THEN fin.err ELSE @]

\* the test of read() after super().read(): it runs when the joined
\* iteration let no exception out
ReadFires(cap1, fin1) ==
    resp.kind = "wrapper" /\ fin1.escapes = NoneStr /\ ReadCaptures(resp.body, cap1)

\* what the caller of read() gets: the exception that left the first
\* finalize step, else the one that left the second
ReadEscaped(fin1, fin2) == IF fin1.escapes /= NoneStr THEN fin1.escapes ELSE fin2.escapes

\* the state after read(): cap2 is _captured_content, fired whether a
\* finalize call was made, fin1 and fin2 the finalize steps of the joined
\* iteration and of read() itself
ReadDone(cap2, fired, fin1, fin2) ==
    /\ resp' = [resp EXCEPT
                   !.captured = cap2,
                   !.content_captured = @ \/ fired,
                   !.is_stream_consumed = TRUE,
                   !.has_content = @ \/ fin1.escapes = NoneStr,
                   !.read_result = IF ReadEscaped(fin1, fin2) = NoneStr
                                   THEN "bytes" ELSE "raise",
                   !.read_bytes = IF ReadEscaped(fin1, fin2) = NoneStr
                                  THEN resp.body ELSE <<>>,
                   !.op_error = ReadEscaped(fin1, fin2)]
    /\ hist' = HistAfter(HistAfter([hist EXCEPT !.reads = TRUE, !.err = NoneStr], fin1), fin2)
    /\ trace' = fin2.trace
    /\ stats' = fin2.stats
    /\ created' = created \o fin1.creates \o fin2.creates

\* read() after super().read() has joined the iteration: cap1 is
\* _captured_content and fin1 the finalize step of that iteration
ReadJoined(cap1, fire1, fin1, repoRaises) ==
    \E fin2 \in {IF ReadFires(cap1, fin1)
                  THEN complete_trace(fin1.trace, fin1.stats, resp.body, repository, repoRaises)
                  ELSE NoFinalize(fin1.trace, fin1.stats)} :
       ReadDone(IF ReadFires(cap1, fin1) THEN resp.body ELSE cap1,
                fire1 \/ ReadFires(cap1, fin1),
                fin1, fin2)

\* whether read() iterates the stream through the overridden iter_bytes
ReadIterates == resp.kind = "wrapper" /\ ~resp.has_content

\* _captured_content after the iteration inside read()
ReadIterCaptured ==
    IF ReadIterates
    THEN resp.captured \o Concat(Slices(resp.body, DefaultChunkSize))
    ELSE resp.captured

\* response.read().  httpx.Response.read() returns the cached body, or joins
\* self.iter_bytes() (the override for a LogResponse, run to its end), which
\* raises StreamConsumed when the stream was already iterated.
Read(repoRaises) ==
    /\ resp.kind /= "none"
    /\ IF ~resp.has_content /\ resp.is_stream_consumed
       THEN /\ resp' = [resp EXCEPT !.read_result = "raise", !.read_bytes = <<>>,
                                    !.op_error = "StreamConsumed"]
            /\ hist' = [hist EXCEPT !.reads = TRUE, !.err = NoneStr]
            /\ UNCHANGED <<trace, stats, created, transports, trace_messages, sessions>>
       ELSE \E fin1 \in {IF ReadIterates /\ IterCompletes(resp.content_captured)
                          THEN complete_trace(trace, stats, ReadIterCaptured,
                                              repository, repoRaises)
                          ELSE NoFinalize(trace, stats)} :
               ReadJoined(ReadIterCaptured,
                          ReadIterates /\ IterCompletes(resp.content_captured),
                          fin1, repoRaises)
    /\ UNCHANGED <<repository, call, legacy, fn, db, thr, tracer,
                   transports, trace_messages, sessions>>

\* response.iter_bytes(chunk_size): a new generator; nothing runs before the
\* first next()
IterStart(chunk_size) ==
    /\ resp.kind /= "none"
    /\ hist.iters < MaxIters
    /\ resp' = [resp EXCEPT !.gen = "fresh", !.chunk_size = chunk_size,
                            !.chunks = <<>>, !.pos = 0, !.yielded = <<>>,
                            !.op_error = NoneStr]
    /\ hist' = [hist EXCEPT !.iters = @ + 1, !.err = NoneStr]
    /\ UNCHANGED <<stats, repository, created, trace, call, legacy, fn, db, thr, tracer,
                   transports, trace_messages, sessions>>

\* next() on the generator: the first one starts httpx.Response.iter_bytes
\* (the cached body, or the stream, which raises StreamConsumed when it was
\* already iterated); each one yields the next chunk after adding it to the
\* captured bytes, or runs the code after the loop and stops
IterNext(repoRaises) ==
    /\ resp.gen \in {"fresh", "active"}
    /\ LET wrapper == resp.kind = "wrapper"
           starting == resp.gen = "fresh"
           consumed == starting /\ ~resp.has_content /\ resp.is_stream_consumed
           chunks == IF starting THEN Slices(resp.body, resp.chunk_size) ELSE resp.chunks
           atEnd == resp.pos >= Len(chunks)
           fire == wrapper /\ atEnd /\ IterCompletes(resp.content_captured)
           captured == IF wrapper THEN resp.captured ELSE <<>>
       IN IF consumed
          THEN /\ resp' = [resp EXCEPT !.gen = "failed", !.op_error = "StreamConsumed"]
               /\ hist' = [hist EXCEPT !.err = NoneStr]
               /\ UNCHANGED <<trace, stats, created, transports, trace_messages, sessions>>
          ELSE IF ~atEnd
          THEN /\ resp' = [resp EXCEPT
                              !.gen = "active", !.chunks = chunks,
                              !.is_stream_consumed = TRUE,
                              !.pos = @ + 1,
                              !.captured = IF wrapper THEN @ \o chunks[resp.pos + 1] ELSE @,
                              !.yielded = Append(@, chunks[resp.pos + 1]),
                              !.op_error = NoneStr]
               /\ hist' = [hist EXCEPT !.err = NoneStr]
               /\ UNCHANGED <<trace, stats, created, transports, trace_messages, sessions>>
          ELSE \E fin \in {IF fire
                            THEN complete_trace(trace, stats, captured, repository, repoRaises)
                            ELSE NoFinalize(trace, stats)} :
               /\ resp' = [resp EXCEPT
                              !.gen = IF fin.escapes = NoneStr THEN "exhausted" ELSE "failed",
                              !.chunks = chunks,
                              !.is_stream_consumed = TRUE,
                              !.content_captured = @ \/ fire,
                              !.op_error = fin.escapes]
               /\ hist' = HistAfter([hist EXCEPT !.err = NoneStr], fin)
               /\ trace' = fin.trace
               /\ stats' = fin.stats
               /\ created' = created \o fin.creates
    /\ UNCHANGED <<repository, call, legacy, fn, db, thr, tracer,
                   transports, trace_messages, sessions>>

\* ------------------------------------------------------------------------
\* The earlier revision (tracer.py) and the status mutators of TraceRecord
\* ------------------------------------------------------------------------
\* the messages of the exceptions the wrapped transport raises
LegacyErrors == {<<"connection", "refused">>, <<"request", "timeout">>, <<"boom">>}

\* utils.categorize_error(exception): <<error_category, error_code>> from
\* the words of str(exception)
legacy_categorize_error(error_str) ==
    LET contains(word) == \E i \in 1..Len(error_str) : error_str[i] = word
    IN CASE contains("timeout") -> <<"timeout", "REQUEST_TIMEOUT">>
         [] contains("connection") -> <<"network", "CONNECTION_ERROR">>
         [] OTHER -> <<"unknown", "UNKNOWN_ERROR">>

\* what the earlier handle_request gets from the wrapped transport
LegacyOutcomes ==
    [kind : {"raise"}, error : LegacyErrors, body : {<<>>}]
    \cup [kind : {"response"}, error : {<<>>},
          body : {<<>>, <<"<html>">>, Encode([usage |-> Usage(5, 3, 8),
                                              choices |-> <<Choice(<<"hello">>, "stop")>>])}]

\* utils.parse_openai_response merged into the record with setattr
LegacyParsed(t, body) ==
    LET parsed == json_loads(body)
        doc == parsed.doc
        t1 == IF parsed.ok /\ doc.usage.present
              THEN [t EXCEPT !.prompt_tokens = doc.usage.prompt_tokens,
                             !.completion_tokens = doc.usage.completion_tokens,
                             !.total_tokens = doc.usage.total_tokens]
              ELSE t
    IN IF parsed.ok /\ doc.choices /= <<>>
       THEN [t1 EXCEPT !.assistant_response = doc.choices[1].content,
                       !.finish_reason = doc.choices[1].finish_reason]
       ELSE t1

\* handle_request of tracer.py: mark_completed on a response, mark_error on
\* an exception of the wrapped transport, which is re-raised
LegacyHandleRequest(outcome) ==
    /\ ~legacy.made
    /\ legacy.marks = 0
    /\ LET t0 == NewTraceRecord(0)
           cat == legacy_categorize_error(outcome.error)
           t1 == IF outcome.kind = "raise"
                 THEN mark_error(t0, cat[2], outcome.error, cat[1])
                 ELSE mark_completed([LegacyParsed(t0, outcome.body) EXCEPT !.success = TRUE])
       IN legacy' = [made |-> TRUE, trace |-> t1,
                     statuses |-> <<"pending", t1.trace_status>>,
                     marks |-> 0,
                     raised |-> IF outcome.kind = "raise" THEN "reraised" ELSE NoneStr]
    /\ UNCHANGED <<stats, repository, created, trace, call, resp, hist, fn, db, thr, tracer,
                   transports, trace_messages, sessions>>

\* a call of TraceRecord.mark_completed on the record
MarkCompleted ==
    /\ legacy.marks < MaxMarks
    /\ legacy' = [legacy EXCEPT !.trace = mark_completed(@),
                                !.statuses = Append(@, mark_completed(legacy.trace).trace_status),
                                !.marks = @ + 1]
    /\ UNCHANGED <<stats, repository, created, trace, call, resp, hist, fn, db, thr, tracer,
                   transports, trace_messages, sessions>>

\* a call of TraceRecord.mark_error on the record
MarkError(error_str) ==
    /\ legacy.marks < MaxMarks
    /\ LET cat == legacy_categorize_error(error_str)
           t1 == mark_error(legacy.trace, cat[2], error_str, cat[1])
       IN legacy' = [legacy EXCEPT !.trace = t1,
                                   !.statuses = Append(@, t1.trace_status),
                                   !.marks = @ + 1]
    /\ UNCHANGED <<stats, repository, created, trace, call, resp, hist, fn, db, thr, tracer,
                   transports, trace_messages, sessions>>

\* a call of TraceRecord.update_completeness on the record
UpdateCompleteness ==
    /\ legacy.marks < MaxMarks
    /\ legacy' = [legacy EXCEPT !.trace = update_completeness(@), !.marks = @ + 1]
    /\ UNCHANGED <<stats, repository, created, trace, call, resp, hist, fn, db, thr, tracer,
                   transports, trace_messages, sessions>>

\* ------------------------------------------------------------------------
\* The functions of parsers.py applied on their own
\* ------------------------------------------------------------------------
\* what follows "data: " on a line: a chunk object, a JSON value that is no
\* object, or text that is no JSON
StreamPayloads ==
    {EncodeEvent(ev) : ev \in StreamEvents} \cup JsonScalars \cup {<<"{oops">>}

SeqsUpTo(S, n) == UNION {[1..k -> S] : k \in 0..n}

\* a streaming body of the given payloads, closed by the [DONE] line
RECURSIVE StreamBody(_)
StreamBody(payloads) ==
    IF payloads = <<>> THEN DoneLine
    ELSE DataLine(Head(payloads)) \o StreamBody(Tail(payloads))

\* parse_openai_response(content, is_streaming=True) on a streaming body
ParseStream(payloads) ==
    /\ fn = NoFn
    /\ fn' = [op |-> "parse_openai_response", payloads |-> payloads,
              content |-> StreamBody(payloads),
              output |-> parse_openai_response(StreamBody(payloads), TRUE)]
    /\ UNCHANGED <<stats, repository, created, trace, call, resp, hist, legacy, db, thr, tracer,
                   transports, trace_messages, sessions>>

\* parse_openai_request on a request, and extract_conversation_messages on
\* what it returned
ParseRequest(request) ==
    /\ fn = NoFn
    /\ fn' = [op |-> "parse_openai_request", request |-> request,
              output |-> parse_openai_request(request),
              conversation |-> extract_conversation_messages(parse_openai_request(request))]
    /\ UNCHANGED <<stats, repository, created, trace, call, resp, hist, legacy, db, thr, tracer,
                   transports, trace_messages, sessions>>

\* the arguments categorize_error is applied to
CategorizeStatuses == {200, 302, 399, 400, 401, 403, 404, 422, 429, 499, 500, 503}

CategorizeMessages ==
    { <<>>, <<"boom">>, <<"context_length_exceeded">>, <<"CONTEXT_LENGTH_EXCEEDED">>,
      <<"invalid_request">>, <<"Invalid_Request", "context_length_exceeded">> }

\* categorize_error(status_code, error_message)
CategorizeError(status_code, error_message) ==
    /\ fn = NoFn
    /\ fn' = [op |-> "categorize_error", status_code |-> status_code,
              error_message |-> error_message,
              output |-> categorize_error(status_code, error_message)]
    /\ UNCHANGED <<stats, repository, created, trace, call, resp, hist, legacy, db, thr, tracer,
                   transports, trace_messages, sessions>>

\* TraceRepository on one database (trace_repository.py)
\* ------------------------------------------------------------------------
\* the columns of a trace that differ between two persists of the model
TraceValues == [success : BOOLEAN, total_tokens : {0, 8}]

\* the row of a trace in the traces table
Row(trace_id, values) == [trace_id |-> trace_id, values |-> values]

\* TraceRepository.read(trace_id) is not None
Stored(rows, trace_id) == \E i \in 1..Len(rows) : rows[i].trace_id = trace_id

\* TraceRepository.create: a plain INSERT; trace_id is the PRIMARY KEY, so
\* the INSERT of a stored trace_id raises and create re-raises
create(rows, trace_id, values) ==
    IF Stored(rows, trace_id)
    THEN [rows |-> rows, raised |-> "ConstraintException"]
    ELSE [rows |-> Append(rows, Row(trace_id, values)), raised |-> NoneStr]

\* TraceRepository.update: UPDATE ... WHERE trace_id = ?
update(rows, trace_id, values) ==
    [rows |-> [i \in 1..Len(rows) |->
                  IF rows[i].trace_id = trace_id THEN Row(trace_id, values) ELSE rows[i]],
     raised |-> NoneStr]

\* TraceRepository.create_or_update for a trace that has a trace_id
create_or_update(rows, trace_id, values) ==
    IF ~Stored(rows, trace_id) THEN create(rows, trace_id, values)
    ELSE update(rows, trace_id, values)

\* the persist operation of the transport: repository.create(trace), where
\* trace_id is "trace_<n>" for the n-th call of a TracedTransport; every
\* TracedTransport on the database counts from 1
TransportPersist(n, values) ==
    /\ db' = [rows |-> create(db.rows, n, values).rows,
              last |-> [op |-> "create", trace_id |-> n, values |-> values,
                        raised |-> create(db.rows, n, values).raised]]
    /\ UNCHANGED <<stats, repository, created, trace, call, resp, hist, legacy, fn, thr, tracer,
                   transports, trace_messages, sessions>>

\* repository.create_or_update(trace), which no code of the transport calls
CreateOrUpdate(n, values) ==
    /\ db' = [rows |-> create_or_update(db.rows, n, values).rows,
              last |-> [op |-> "create_or_update", trace_id |-> n, values |-> values,
                        raised |-> create_or_update(db.rows, n, values).raised]]
    /\ UNCHANGED <<stats, repository, created, trace, call, resp, hist, legacy, fn, thr, tracer,
                   transports, trace_messages, sessions>>

\* the messages of a stored conversation: Message objects, known by their
\* message_id
MessageIds == 1..MaxMessages

\* the conversations a trace is stored with: message ids, none twice
Conversations ==
    {c \in SeqsUpTo(MessageIds, MaxMessages) : \A i, j \in 1..Len(c) : c[i] = c[j] => i = j}

\* the session_id of a stored trace: unset, or the id of a session
TraceSessionIds == {NoneStr, "default"}

\* _link_trace_to_message for every message of a conversation:
\* INSERT OR IGNORE INTO trace_messages (trace_id, message_id, message_order),
\* message_order counting from 0; (trace_id, message_id) is the primary key
link_messages(links, trace_id, full_conversation) ==
    links \cup {[trace_id |-> trace_id, message_id |-> full_conversation[i],
                 message_order |-> i - 1] :
                   i \in {j \in 1..Len(full_conversation) :
                            ~\E l \in links : /\ l.trace_id = trace_id
                                               /\ l.message_id = full_conversation[j]}}

\* DELETE FROM trace_messages WHERE trace_id = ?
unlink_messages(links, trace_id) == {l \in links : l.trace_id /= trace_id}

\* the message part of TraceRepository.create:
\* "if full_conversation and trace.session_id"
create_messages(links, trace_id, full_conversation, session_id) ==
    IF full_conversation /= <<>> /\ session_id /= NoneStr
    THEN link_messages(links, trace_id, full_conversation)
    ELSE links

\* the message part of TraceRepository.update:
\* "if trace.full_conversation and trace.session_id"
update_messages(links, trace_id, full_conversation, session_id) ==
    IF full_conversation /= <<>> /\ session_id /= NoneStr
    THEN link_messages(unlink_messages(links, trace_id), trace_id, full_conversation)
    ELSE links

\* the message part of TraceRepository.read: the messages joined through
\* trace_messages, ORDER BY message_order
read_messages(links, trace_id) ==
    LET mine == {l \in links : l.trace_id = trace_id}
    IN [i \in 1..Cardinality(mine) |->
          (CHOOSE l \in mine :
              Cardinality({k \in mine : k.message_order < l.message_order}) = i - 1).message_id]

\* TraceRepository.create(trace) of a trace not yet stored
CreateTrace(n, values, full_conversation, session_id) ==
    /\ ~Stored(db.rows, n)
    /\ db' = [rows |-> create(db.rows, n, values).rows,
              last |-> [op |-> "create", trace_id |-> n, values |-> values,
                        raised |-> create(db.rows, n, values).raised]]
    /\ trace_messages' =
          [links |-> create_messages(trace_messages.links, n, full_conversation, session_id),
           last |-> [op |-> "create", trace_id |-> n,
                     full_conversation |-> full_conversation, session_id |-> session_id]]
    /\ UNCHANGED <<stats, repository, created, trace, call, resp, hist, legacy, fn, thr, tracer,
                   transports, sessions>>

\* TraceRepository.update(trace_id, trace) of a stored trace
UpdateTrace(n, values, full_conversation, session_id) ==
    /\ Stored(db.rows, n)
    /\ db' = [rows |-> update(db.rows, n, values).rows,
              last |-> [op |-> "update", trace_id |-> n, values |-> values,
                        raised |-> update(db.rows, n, values).raised]]
    /\ trace_messages' =
          [links |-> update_messages(trace_messages.links, n, full_conversation, session_id),
           last |-> [op |-> "update", trace_id |-> n,
                     full_conversation |-> full_conversation, session_id |-> session_id]]
    /\ UNCHANGED <<stats, repository, created, trace, call, resp, hist, legacy, fn, thr, tracer,
                   transports, sessions>>

\* Serialisation of Message and TraceRecord (models.py)
\* ------------------------------------------------------------------------
\* a Python value with its type: None, a str, a list, or a datetime
PyNone == [type |-> "NoneType", value |-> <<>>]
PyStr(text) == [type |-> "str", value |-> text]
PyList(items) == [type |-> "list", value |-> items]
PyDatetime(t) == [type |-> "datetime", value |-> t]

\* the JSON texts of the items of a content list
JsonItems == {"1", "2"}

\* the string contents of a message: plain text, the text of a JSON list,
\* bracketed text that is no JSON, and the text "[]"
ContentTexts == {<<"hi">>, <<"[", "1", "]">>, <<"[", "oops", "]">>, <<"[", "]">>}

\* the list contents of a message (Vision API format)
ContentLists == {<<>>, <<"1">>, <<"1", "2">>}

MessageContents ==
    {PyNone} \cup {PyStr(text) : text \in ContentTexts}
             \cup {PyList(items) : items \in ContentLists}

\* message_timestamp, trace_completed_at: unset or a datetime
Timestamps == {PyNone, PyDatetime(<<"2024-01-01T00:00:00">>)}

\* json.dumps of a list
json_dumps(items) == <<"[">> \o items \o <<"]">>

\* content.startswith('[') and content.endswith(']')
LooksLikeList(text) == text[1] = "[" /\ text[Len(text)] = "]"

\* json.loads of a text that looks like a list: the list, or JSONDecodeError
json_loads_list(text) ==
    IF Len(text) >= 2 /\ \A i \in 2..Len(text) - 1 : text[i] \in JsonItems
    THEN [ok |-> TRUE, value |-> PyList(SubSeq(text, 2, Len(text) - 1))]
    ELSE [ok |-> FALSE, value |-> PyNone]

\* datetime.isoformat() where the value is a datetime
isoformat(v) == IF v.type = "datetime" THEN PyStr(v.value) ELSE v

\* datetime.fromisoformat() where the value is a non-empty str
fromisoformat(v) == IF v.type = "str" /\ v.value /= <<>> THEN PyDatetime(v.value) ELSE v

\* Message.to_dict
Message_to_dict(message) ==
    [message EXCEPT !.message_timestamp = isoformat(@),
                    !.content = IF @.type = "list" /\ @.value /= <<>>
                                THEN PyStr(json_dumps(@.value)) ELSE @]

\* Message.from_dict
Message_from_dict(data) ==
    [data EXCEPT !.message_timestamp = fromisoformat(@),
                 !.content = IF /\ @.type = "str"
                                /\ @.value /= <<>>
                                /\ LooksLikeList(@.value)
                                /\ json_loads_list(@.value).ok
                             THEN json_loads_list(@.value).value ELSE @]

\* TraceRecord.to_dict, for the fields that are converted
TraceRecord_to_dict(t) ==
    [t EXCEPT !.trace_completed_at = isoformat(@),
              !.full_conversation = [i \in 1..Len(@) |-> Message_to_dict(@[i])]]

\* TraceRecord.from_dict
TraceRecord_from_dict(data) ==
    [data EXCEPT !.trace_completed_at = fromisoformat(@),
                 !.full_conversation = [i \in 1..Len(@) |-> Message_from_dict(@[i])]]

\* the Message objects that are serialised
RoundTripMessages ==
    [message_id : {"m1"}, role : {"user", "assistant"}, content : MessageContents,
     message_timestamp : Timestamps]

\* the messages of the conversations of the serialised traces
ConversationMessages == {m \in RoundTripMessages : m.role = "user" /\ m.message_timestamp = PyNone}

\* the TraceRecord objects that are serialised
RoundTripTraces ==
    [trace_id : {1}, full_conversation : SeqsUpTo(ConversationMessages, MaxMessages),
     trace_completed_at : Timestamps]

\* Message.from_dict(m.to_dict())
MessageRoundTrip(m) ==
    /\ fn = NoFn
    /\ fn' = [op |-> "Message.from_dict(to_dict)", input |-> m,
              dict |-> Message_to_dict(m),
              output |-> Message_from_dict(Message_to_dict(m))]
    /\ UNCHANGED <<stats, repository, created, trace, call, resp, hist, legacy, db, thr,
                   tracer, transports, trace_messages, sessions>>

\* TraceRecord.from_dict(t.to_dict())
TraceRecordRoundTrip(t) ==
    /\ fn = NoFn
    /\ fn' = [op |-> "TraceRecord.from_dict(to_dict)", input |-> t,
              dict |-> TraceRecord_to_dict(t),
              output |-> TraceRecord_from_dict(TraceRecord_to_dict(t))]
    /\ UNCHANGED <<stats, repository, created, trace, call, resp, hist, legacy, db, thr,
                   tracer, transports, trace_messages, sessions>>

\* SessionRepository (session_repository.py)
\* ------------------------------------------------------------------------
\* the fields of a Session that the model carries
SessionFields == {"session_id", "session_name", "session_type"}

\* the Session objects handed to the repository
Sessions ==
    [session_id : 1..MaxSessionIds, session_name : {NoneStr, "demo"},
     session_type : {NoneStr, "test", "tracer"}]

\* the keys of Session.to_dict(skip_none=True)
SessionRecordKeys(session) ==
    {k \in SessionFields : k = "session_id" \/ session[k] /= NoneStr}

\* SessionRepository.read(session_id) is not None
SessionStored(rows, session_id) ==
    \E i \in 1..Len(rows) : rows[i].session_id = session_id

\* SessionRepository.create: a plain INSERT; session_id is the PRIMARY KEY
\* (the defaults the table gives to columns left out are not modelled)
session_create(rows, session) ==
    IF SessionStored(rows, session.session_id)
    THEN [rows |-> rows, raised |-> "ConstraintException"]
    ELSE [rows |-> Append(rows, session), raised |-> NoneStr]

\* the "?" placeholders of the UPDATE statement: one per key of the record
\* other than session_id, and the one of the WHERE clause
UpdatePlaceholders(session) == Cardinality(SessionRecordKeys(session) \ {"session_id"}) + 1

\* the parameters handed to execute: tuple(list(record.values()) + [session_id])
UpdateParameters(session) == Cardinality(SessionRecordKeys(session)) + 1

\* SessionRepository.update: the statement is executed with the parameters;
\* a statement with an empty SET clause, or one given another number of
\* parameters than it has placeholders, is rejected by the database
session_update(rows, session_id, session) ==
    IF SessionRecordKeys(session) \ {"session_id"} = {}
    THEN [rows |-> rows, raised |-> "ParserException"]
    ELSE IF UpdateParameters(session) /= UpdatePlaceholders(session)
    THEN [rows |-> rows, raised |-> "InvalidInputException"]
    ELSE [rows |-> [i \in 1..Len(rows) |->
                      IF rows[i].session_id = session_id
                      THEN [k \in SessionFields |->
                              IF k \in SessionRecordKeys(session) \ {"session_id"}
                              THEN session[k] ELSE rows[i][k]]
                      ELSE rows[i]],
          raised |-> NoneStr]

\* SessionRepository.create_or_update
session_create_or_update(rows, session) ==
    IF ~SessionStored(rows, session.session_id) THEN session_create(rows, session)
    ELSE session_update(rows, session.session_id, session)

\* a call of SessionRepository.create_or_update(session)
SessionCreateOrUpdate(session) ==
    /\ sessions' = [rows |-> session_create_or_update(sessions.rows, session).rows,
                    last |-> [op |-> "create_or_update", session_id |-> session.session_id,
                              session |-> session,
                              raised |-> session_create_or_update(sessions.rows, session).raised]]
    /\ UNCHANGED <<stats, repository, created, trace, call, resp, hist, legacy, fn, db, thr,
                   tracer, transports, trace_messages>>

\* handle_request and _complete_trace run by several threads (transport.py)
\* ------------------------------------------------------------------------
\* the statements of one traced call that touch the shared stats, in program
\* order: the counter each "+=" updates, and "trace" for the TraceRecord
\* construction that reads total_requests into trace_id
ThreadSteps ==
    <<"total_requests", "trace", "successful_requests",
      "total_prompt_tokens", "total_completion_tokens", "total_tokens">>

\* what a "+=" statement adds: 1 to a request counter, the usage of the
\* response (5, 3, 8) to a token total
Amount(key) ==
    CASE key = "total_prompt_tokens" -> 5
      [] key = "total_completion_tokens" -> 3
      [] key = "total_tokens" -> 8
      [] OTHER -> 1

ThreadDone(t) == thr[t].step > Len(ThreadSteps)

\* stats[key] += x, first half: the thread loads the current value; nothing
\* keeps another thread from running before the store
Load(t) ==
    /\ ~ThreadDone(t)
    /\ ThreadSteps[thr[t].step] /= "trace"
    /\ thr[t].phase = "load"
    /\ thr' = [thr EXCEPT ![t].tmp = stats[ThreadSteps[thr[t].step]], ![t].phase = "store"]
    /\ UNCHANGED <<stats, repository, created, trace, call, resp, hist, legacy, fn, db, tracer,
                   transports, trace_messages, sessions>>

\* stats[key] += x, second half: the thread stores loaded value + x
Store(t) ==
    /\ ~ThreadDone(t)
    /\ thr[t].phase = "store"
    /\ stats' = [stats EXCEPT ![ThreadSteps[thr[t].step]] =
                                 thr[t].tmp + Amount(ThreadSteps[thr[t].step])]
    /\ thr' = [thr EXCEPT ![t].step = @ + 1, ![t].phase = "load"]
    /\ UNCHANGED <<repository, created, trace, call, resp, hist, legacy, fn, db, tracer,
                   transports, trace_messages, sessions>>

\* TraceRecord(trace_id=f"trace_{self.stats['total_requests']}", ...)
BuildTrace(t) ==
    /\ ~ThreadDone(t)
    /\ ThreadSteps[thr[t].step] = "trace"
    /\ thr' = [thr EXCEPT ![t].trace_id = stats.total_requests, ![t].step = @ + 1]
    /\ UNCHANGED <<stats, repository, created, trace, call, resp, hist, legacy, fn, db, tracer,
                   transports, trace_messages, sessions>>

\* several TracedTransport instances on one repository (transport.py)
\* ------------------------------------------------------------------------
\* handle_request on instance tp, as far as the trace id goes: the instance's
\* own total_requests is incremented, the TraceRecord gets the trace_id
\* "trace_<total_requests>", and the trace is handed to repository.create
InstanceHandleRequest(tp, values) ==
    LET n == transports[tp].total_requests + 1
    IN /\ n <= MaxInstanceCalls
       /\ transports' = [transports EXCEPT ![tp] =
                            [total_requests |-> n, trace_ids |-> Append(@.trace_ids, n)]]
       /\ db' = [rows |-> create(db.rows, n, values).rows,
                 last |-> [op |-> "create", trace_id |-> n, values |-> values,
                           raised |-> create(db.rows, n, values).raised]]
       /\ UNCHANGED <<stats, repository, created, trace, call, resp, hist, legacy, fn, thr, tracer,
                      trace_messages, sessions>>

\* The tracer that owns the transport.  Its class (ManulTracer) is used by
\* the tests and exported by the package, but its code is not part of the
\* sources: construction is modelled from the specification and the tests.
\* ------------------------------------------------------------------------
\* the session_id argument of the constructor: absent, or a given id
SessionIdOptions == {NoneStr, "test_session_123"}

\* ManulTracer(session_id=...): the given id, or one generated id
ManulTracer(session_id) ==
    [made |-> TRUE,
     session_id |-> IF session_id = NoneStr THEN "generated_session_id" ELSE session_id]

\* constructing the tracer and, with it, its transport
Construct(session_id) ==
    /\ ~tracer.made
    /\ tracer' = ManulTracer(session_id)
    /\ UNCHANGED <<stats, repository, created, trace, call, resp, hist, legacy, fn, db, thr,
                   transports, trace_messages, sessions>>

\* one handle_request call on the transport of a constructed tracer
TracerCall(request, outcome, repoRaises1, repoRaises2) ==
    /\ tracer.made
    /\ HandleRequest(request, outcome, repoRaises1, repoRaises2)

\* ------------------------------------------------------------------------
\* Specifications
\* ------------------------------------------------------------------------
\* whether a repository.create call raises: only a repository can
RepoRaises == IF repository THEN BOOLEAN ELSE {FALSE}

\* whether the create call of the except branch raises, which is reached
\* after a create call of the try block raised
RaisesAgain(r1) == IF r1 THEN BOOLEAN ELSE {FALSE}

Next ==
    \/ \E request \in Requests, outcome \in WrappedOutcomes, r1 \in RepoRaises :
          \E r2 \in RaisesAgain(r1) : HandleRequest(request, outcome, r1, r2)
    \/ \E r \in RepoRaises : Read(r)
    \/ \E cs \in ChunkSizes : IterStart(cs)
    \/ \E r \in RepoRaises : IterNext(r)

Spec == Init /\ [][Next]_vars

NextLegacy ==
    \/ \E outcome \in LegacyOutcomes : LegacyHandleRequest(outcome)
    \/ MarkCompleted
    \/ \E e \in LegacyErrors : MarkError(e)
    \/ UpdateCompleteness

SpecLegacy == Init /\ [][NextLegacy]_vars

\* a session of handle_request calls
NextSession ==
    \E request \in Requests, outcome \in WrappedOutcomes, r1 \in RepoRaises :
          \E r2 \in RaisesAgain(r1) : SessionCall(request, outcome, r1, r2)

SpecSession == Init /\ [][NextSession]_vars

\* calls and consumptions when the upstream may also report odd usage counts
StatsOutcomes ==
    WrappedOutcomes
    \cup [kind : {"response"}, exc : {NoneStr}, status : {200}, body : OddBodies]

\* a plain and a streaming request to the API, and a request elsewhere
StatsRequests ==
    { [openai |-> o, body |-> [kind |-> "object", messages |-> <<ReqMsg("user", <<"hi">>)>>,
                               stream |-> st]] : o, st \in BOOLEAN }

NextStats ==
    \/ \E request \in StatsRequests, outcome \in StatsOutcomes, r1 \in RepoRaises :
          \E r2 \in RaisesAgain(r1) : HandleRequest(request, outcome, r1, r2)
    \/ \E r \in RepoRaises : Read(r)
    \/ \E cs \in ChunkSizes : IterStart(cs)
    \/ \E r \in RepoRaises : IterNext(r)

SpecStats == Init /\ [][NextStats]_vars

\* persists on one database
NextRepository ==
    \/ \E n \in 1..MaxTraceIds, values \in TraceValues : TransportPersist(n, values)
    \/ \E n \in 1..MaxTraceIds, values \in TraceValues : CreateOrUpdate(n, values)

SpecRepository == Init /\ [][NextRepository]_vars

\* threads calling handle_request on one transport and consuming the responses
NextThreads ==
    \/ \E t \in Threads : Load(t)
    \/ \E t \in Threads : Store(t)
    \/ \E t \in Threads : BuildTrace(t)

SpecThreads == Init /\ [][NextThreads]_vars

\* traces with their conversations written to one database
NextMessages ==
    \/ \E n \in 1..MaxTraceIds, values \in TraceValues, c \in Conversations,
          session_id \in TraceSessionIds : CreateTrace(n, values, c, session_id)
    \/ \E n \in 1..MaxTraceIds, values \in TraceValues, c \in Conversations,
          session_id \in TraceSessionIds : UpdateTrace(n, values, c, session_id)

SpecMessages == Init /\ [][NextMessages]_vars

\* models.py: one object serialised and read back
NextRoundTrip ==
    \/ \E m \in RoundTripMessages : MessageRoundTrip(m)
    \/ \E t \in RoundTripTraces : TraceRecordRoundTrip(t)

SpecRoundTrip == Init /\ [][NextRoundTrip]_vars

\* sessions written to one database
NextSessions ==
    \E session \in Sessions : SessionCreateOrUpdate(session)

SpecSessions == Init /\ [][NextSessions]_vars

\* calls on several transports that share one repository
NextTransports ==
    \E tp \in Transports, values \in TraceValues : InstanceHandleRequest(tp, values)

SpecTransports == Init /\ [][NextTransports]_vars

\* a tracer is constructed and calls go through its transport
NextTracer ==
    \/ \E session_id \in SessionIdOptions : Construct(session_id)
    \/ \E request \in Requests, outcome \in WrappedOutcomes, r1 \in RepoRaises :
          \E r2 \in RaisesAgain(r1) : TracerCall(request, outcome, r1, r2)

SpecTracer == Init /\ [][NextTracer]_vars

\* parsers.py: one function applied to one input
NextParsers ==
    \/ \E payloads \in SeqsUpTo(StreamPayloads, MaxLines) : ParseStream(payloads)
    \/ \E request \in Requests : ParseRequest(request)
    \/ \E status_code \in CategorizeStatuses, error_message \in CategorizeMessages :
          CategorizeError(status_code, error_message)

SpecParsers == Init /\ [][NextParsers]_vars

\* ------------------------------------------------------------------------
\* Properties
\* ------------------------------------------------------------------------
\* the repository.create calls the finalize step made for the latest trace
FinalizeCreates ==
    {i \in 1..Len(created) : /\ created[i].via = "finalize"
                              /\ created[i].trace.trace_id = trace.trace_id}

\* role and content of each message of a conversation
Turns(messages) ==
    [i \in 1..Len(messages) |-> [role |-> messages[i].role, content |-> messages[i].content]]

\* the caller has consumed the response to its end
ConsumedToEnd == resp.read_result = "bytes" \/ resp.gen = "exhausted"

\* C1: handle_request shows its caller what the wrapped transport produced:
\* it raises only the exception the wrapped transport raised, and returns a
\* response whenever the wrapped transport returned one.
C1_CallerSeesWrappedOutcome ==
    call.made =>
        /\ call.raised /= NoneStr => call.raised = call.outcome.exc
        /\ call.outcome.kind = "response" =>
              /\ call.raised = NoneStr
              /\ resp.status = call.outcome.status
              /\ resp.body = call.outcome.body

\* C2: for one wrapped response the finalize step takes effect at most once,
\* whatever reads and iterations the caller does: the token counters grow at
\* most once by the response's usage, at most one assistant message is
\* appended, and the repository gets the trace at most once.
C2_FinalizeAtMostOnce ==
    resp.kind = "wrapper" =>
        /\ hist.stat_updates <= 1
        /\ hist.appends <= 1
        /\ hist.creates <= 1
        /\ Cardinality(FinalizeCreates) <= 1
        /\ stats.total_prompt_tokens - call.stats_after.total_prompt_tokens
              \in {0, trace.prompt_tokens}
        /\ stats.total_completion_tokens - call.stats_after.total_completion_tokens
              \in {0, trace.completion_tokens}
        /\ stats.total_tokens - call.stats_after.total_tokens \in {0, trace.total_tokens}
        /\ Len(trace.full_conversation) <= Len(call.request.body.messages) + 1

\* a response that was read and then iterated to the end, finalized once
C2_ReadAndIterated ==
    /\ resp.kind = "wrapper"
    /\ hist.reads /\ resp.gen = "exhausted"
    /\ hist.stat_updates = 1 /\ hist.appends = 1 /\ hist.creates = 1
    /\ stats.total_tokens = call.stats_after.total_tokens + 8

\* C3: the bytes the wrapper has accumulated are the bytes of the body, each
\* once and in order (a prefix while the body is being consumed, all of it at
\* the end), content exposes them, and every chunk iter_bytes yields is the
\* chunk the underlying response produced.
C3_CapturedIsBody ==
    resp.kind = "wrapper" =>
        /\ IsPrefix(resp.captured, resp.body)
        /\ ConsumedToEnd => resp.captured = resp.body /\ Content(resp) = resp.body
        /\ resp.gen \in {"active", "exhausted"} =>
              resp.yielded = SubSeq(Slices(resp.body, resp.chunk_size), 1, resp.pos)

\* C4: a successful traced call whose body was consumed to the end, whatever
\* the body, has handed its trace to the repository exactly once.
C4_ConsumedTracePersistedOnce ==
    (resp.kind = "wrapper" /\ repository /\ ConsumedToEnd) =>
        Cardinality(FinalizeCreates) = 1

\* C5: an exception raised inside the finalize step does not reach the
\* caller of read() or iter_bytes(), who still gets every byte of the body in
\* order.
C5_FinalizeErrorContained ==
    resp.kind = "wrapper" =>
        /\ resp.op_error \in {NoneStr, "StreamConsumed"}
        /\ hist.err /= NoneStr => resp.op_error = NoneStr /\ ConsumedToEnd
        /\ resp.read_result = "bytes" => resp.read_bytes = resp.body
        /\ resp.gen = "exhausted" => Concat(resp.yielded) = resp.body

\* the finalize step raised (in repository.create) and the read returned the body
C5_FinalizeRaisedBodyRead ==
    /\ resp.kind = "wrapper"
    /\ hist.err = "RepositoryError"
    /\ resp.read_result = "bytes" /\ resp.read_bytes = resp.body /\ resp.body /= <<>>

\* C6: when the wrapped transport raises, the trace ends with
\* trace_status "error" and success False, is handed to the repository, and
\* the same exception is re-raised.
C6_TransportExceptionMarksError ==
    (call.made /\ call.outcome.kind = "raise") =>
        /\ trace.trace_status = "error"
        /\ trace.success = FALSE
        /\ repository => \E i \in 1..Len(created) : created[i].trace.trace_id = trace.trace_id
        /\ call.raised = call.outcome.exc

\* C7: for a response with status >= 400 handle_request returns that response
\* with its body readable, the trace is failed with the classifier's category
\* and the error body as message, failed_requests grows by exactly one and
\* the repository is notified exactly once.
C7_ErrorResponseRecorded ==
    (call.made /\ call.outcome.kind = "response" /\ call.outcome.status >= 400) =>
        /\ call.raised = NoneStr /\ call.returned = "original"
        /\ resp.has_content /\ resp.body = call.outcome.body
        /\ trace.success = FALSE
        /\ ~DecodeFails(call.outcome.body) =>
              /\ trace.error_message = call.outcome.body
              /\ trace.error_category =
                    categorize_error(call.outcome.status, call.outcome.body)
        /\ call.stats_after.failed_requests = call.stats_before.failed_requests + 1
        /\ repository => call.creates = 1

\* C8: every trace handed to the repository has trace_status "complete" or
\* "error", never "pending", and has trace_completed_at set.
C8_PersistedTracesAreFinal ==
    \A i \in 1..Len(created) :
        /\ created[i].trace.trace_status \in {"complete", "error"}
        /\ created[i].trace.trace_completed_at

\* C9: trace_status leaves "pending" at most once: after "complete" or "error"
\* no operation changes it.
C9_StatusTerminal ==
    \A i \in 1..(Len(legacy.statuses) - 1) :
        legacy.statuses[i] /= "pending" => legacy.statuses[i + 1] = legacy.statuses[i]

\* the 200 response of the latest call is a JSON document with a usage object
\* and a first choice with message content and finish_reason, the request is
\* not a streaming one, and the caller has read the body
C10_Case(doc) ==
    /\ call.made /\ call.raised = NoneStr
    /\ call.outcome.status = 200 /\ call.outcome.body = Encode(doc)
    /\ doc.usage.present /\ doc.choices /= <<>>
    /\ ~call.request.body.stream
    /\ resp.read_result = "bytes"

C10_TraceFilled(doc) ==
    /\ trace.success
    /\ trace.prompt_tokens = doc.usage.prompt_tokens
    /\ trace.completion_tokens = doc.usage.completion_tokens
    /\ trace.total_tokens = doc.usage.total_tokens
    /\ trace.finish_reason = doc.choices[1].finish_reason
    /\ Turns(trace.full_conversation) =
          Append(call.request.body.messages,
                 [role |-> "assistant", content |-> doc.choices[1].content])

C11_StableMessageIds ==
    \A a, b \in 1..Len(created) :
        \A i \in 1..Len(created[a].trace.full_conversation) :
            \A j \in 1..Len(created[b].trace.full_conversation) :
                LET m1 == created[a].trace.full_conversation[i]
                    m2 == created[b].trace.full_conversation[j]
                IN /\ (i = j /\ m1.role = m2.role /\ m1.content = m2.content)
                        => m1.message_id = m2.message_id
                   /\ m1.content /= m2.content => m1.message_id /= m2.message_id

\* a data line is malformed when it is no JSON, JSON but no chunk object, or
\* a chunk whose delta content is null
Malformed(payload) ==
    LET d == json_loads_event(payload)
    IN ~d.ok \/ ~d.object \/ d.ev.delta = NullText

\* the delta contents of the chunks, in order
RECURSIVE Deltas(_)
Deltas(payloads) ==
    IF payloads = <<>> THEN <<>>
    ELSE LET ev == json_loads_event(Head(payloads)).ev
         IN (IF ev.delta /= NoneText THEN <<ev.delta>> ELSE <<>>) \o Deltas(Tail(payloads))

\* the lines whose chunk carries a usage object
UsageLines(payloads) ==
    {i \in 1..Len(payloads) :
        LET u == json_loads_event(payloads[i]).ev.usage IN u.present /\ ~u.null}

LastUsage(payloads) ==
    LET last == CHOOSE i \in UsageLines(payloads) : \A j \in UsageLines(payloads) : j <= i
    IN json_loads_event(payloads[last]).ev.usage

\* C12: for a streaming body of well-formed chunks the assistant content is
\* the concatenation of the chunks' delta contents in order, and the token
\* counts are those of the last chunk that carries a usage object, whatever
\* the other chunks contain
C12_StreamContentAndLastUsage ==
    (/\ fn.op = "parse_openai_response"
     /\ \A i \in 1..Len(fn.payloads) : ~Malformed(fn.payloads[i]))
    => /\ Deltas(fn.payloads) /= <<>>
            => fn.output.assistant_content = Concat(Deltas(fn.payloads))
       /\ UsageLines(fn.payloads) /= {}
            => LET u == LastUsage(fn.payloads)
               IN /\ fn.output.prompt_tokens = u.prompt_tokens
                  /\ fn.output.completion_tokens = u.completion_tokens
                  /\ fn.output.total_tokens = u.total_tokens

\* the payloads of a body without its malformed lines
WellFormedOnly(payloads) == SelectSeq(payloads, LAMBDA p : ~Malformed(p))

\* C13: a malformed data line (no JSON, JSON that is no chunk object, or a
\* delta whose content is null) is skipped on its own: the body yields the
\* same content, finish_reason and token counts as the body without its
\* malformed lines
C13_MalformedSkippedAlone ==
    fn.op = "parse_openai_response"
    => LET clean == parse_openai_response(StreamBody(WellFormedOnly(fn.payloads)), TRUE)
       IN /\ fn.output.assistant_content = clean.assistant_content
          /\ fn.output.content = clean.content
          /\ fn.output.finish_reason = clean.finish_reason
          /\ fn.output.prompt_tokens = clean.prompt_tokens
          /\ fn.output.completion_tokens = clean.completion_tokens
          /\ fn.output.total_tokens = clean.total_tokens

\* C14: for a body that is empty or no JSON, and for a JSON body that is no
\* object, parse_openai_request returns the empty mapping, and the
\* conversation extracted from it is empty
C14_UnparsableRequestGivesEmptyMapping ==
    (fn.op = "parse_openai_request" /\ fn.request.body.kind /= "object")
    => /\ fn.output.isDict
       /\ fn.output.messages = <<>>
       /\ fn.conversation = <<>>

\* whether a text contains a word as written, and whatever its letter case
ContainsWord(text, word) == \E i \in 1..Len(text) : text[i] = word
ContainsWordAnyCase(text, word) == \E i \in 1..Len(text) : LowerWord(text[i]) = word

\* the table of error classes, given whether the message contains
\* context_length_exceeded (ctx) and invalid_request (inv)
ErrorClassTable(status_code, ctx, inv) ==
    IF status_code = 429 THEN "RateLimitError"
    ELSE IF status_code = 401 THEN "AuthenticationError"
    ELSE IF status_code = 404 THEN "NotFoundError"
    ELSE IF status_code >= 500 THEN "ServerError"
    ELSE IF status_code >= 400
    THEN (IF ctx THEN "ContextLengthExceededError"
          ELSE IF inv THEN "InvalidRequestError" ELSE "ClientError")
    ELSE "UnknownError"

\* C15 as stated: categorize_error follows the table, the message being
\* searched for the two words as written
C15_TableAsWritten ==
    fn.op = "categorize_error"
    => fn.output = ErrorClassTable(fn.status_code,
                                   ContainsWord(fn.error_message, "context_length_exceeded"),
                                   ContainsWord(fn.error_message, "invalid_request"))

\* C15 amended: categorize_error follows the table, the message being
\* searched for the two words whatever its letter case; the status-specific
\* classes take precedence over the message
C15_TableIgnoringCase ==
    fn.op = "categorize_error"
    => fn.output = ErrorClassTable(fn.status_code,
                                   ContainsWordAnyCase(fn.error_message, "context_length_exceeded"),
                                   ContainsWordAnyCase(fn.error_message, "invalid_request"))

\* a 4xx response whose message has the word in upper case
C15_UpperCaseContextLength ==
    /\ fn.op = "categorize_error"
    /\ fn.status_code = 400
    /\ fn.error_message = <<"CONTEXT_LENGTH_EXCEEDED">>
    /\ fn.output = "ContextLengthExceededError"

StatKeys ==
    {"total_requests", "total_prompt_tokens", "total_completion_tokens",
     "total_tokens", "successful_requests", "failed_requests"}

ReportedCountsSane == call.outcome.body \notin OddBodies

RowsOf(trace_id) == {i \in 1..Len(db.rows) : db.rows[i].trace_id = trace_id}

\* C18: a persist issued by the transport of a trace_id that may already be
\* stored does not fail, and afterwards there is exactly one row of that
\* trace_id, holding the values of this persist
C18_PersistIsUpsert ==
    db.last.op = "create"
    => /\ db.last.raised = NoneStr
       /\ Cardinality(RowsOf(db.last.trace_id)) = 1
       /\ \A i \in RowsOf(db.last.trace_id) : db.rows[i].values = db.last.values

\* C19: when all concurrent calls and their response consumptions have
\* finished, total_requests is the number of calls, the token totals are the
\* sums of the traces' token counts, and no two calls have the same trace_id
C19_NoLostUpdates ==
    (\A t \in Threads : ThreadDone(t))
    => /\ stats.total_requests = MaxThreads
       /\ stats.total_prompt_tokens = MaxThreads * Amount("total_prompt_tokens")
       /\ stats.total_completion_tokens = MaxThreads * Amount("total_completion_tokens")
       /\ stats.total_tokens = MaxThreads * Amount("total_tokens")
       /\ \A t, u \in Threads : t /= u => thr[t].trace_id /= thr[u].trace_id

\* C20: every TraceRecord built by handle_request, and every one handed to
\* the repository, carries the session_id of the tracer that owns the
\* transport
C20_TraceCarriesTracerSession ==
    call.made
    => /\ trace.session_id = tracer.session_id
       /\ \A i \in 1..Len(created) : created[i].trace.session_id = tracer.session_id

\* C21: every handle_request call invokes the wrapped transport's
\* handle_request exactly once
C21_WrappedCalledOnce ==
    call.made => call.wrapped_calls = 1

\* C22: in every state of a TraceRecord, pending implies trace_completed_at
\* unset; error implies success = False and trace_completed_at set; complete
\* implies success = True, error_code and error_message unset, and
\* trace_completed_at set
C22_StatusConsistent ==
    LET t == legacy.trace
    IN /\ t.trace_status = "pending" => ~t.trace_completed_at
       /\ t.trace_status = "error" => (~t.success /\ t.trace_completed_at)
       /\ t.trace_status = "complete"
            => /\ t.success
               /\ t.error_code = NoneStr
               /\ t.error_message = NoneText
               /\ t.trace_completed_at


\* C23: whenever no handle_request call is in progress, total_requests equals
\* successful_requests + failed_requests
C23_CountersBalance ==
    stats.total_requests = stats.successful_requests + stats.failed_requests

\* C23, for requests whose body is a JSON object only: the balance also fails
\* when repository.create raises inside the try block, after an outcome
\* counter was already incremented
C23_BalanceOnObjectRequests ==
    (call.made /\ call.request.body.kind = "object") => C23_CountersBalance


\* the traces created by the instances: (instance, position) pairs
CreatedTraces ==
    UNION {{<<tp, i>> : i \in 1..Len(transports[tp].trace_ids)} : tp \in Transports}

\* C24: no two TraceRecords created by handle_request, across all calls and
\* all TracedTransport instances on one repository, have the same trace_id
C24_TraceIdsUnique ==
    \A x, y \in CreatedTraces :
        x /= y => transports[x[1]].trace_ids[x[2]] /= transports[y[1]].trace_ids[y[2]]


\* the response's body is what the wrapper captured first
BodyCaptured ==
    /\ resp.content_captured
    /\ Len(resp.captured) >= Len(resp.body)
    /\ SubSeq(resp.captured, 1, Len(resp.body)) = resp.body

\* the conversation is the request's messages followed by the assistant
\* messages the finalize step appended
ConversationOfCall ==
    /\ Len(trace.full_conversation) = Len(call.request.body.messages) + hist.appends
    /\ SubSeq(Turns(trace.full_conversation), 1, Len(call.request.body.messages))
          = call.request.body.messages

\* the last message of the conversation is the assistant message of the
\* response
EndsWithAssistantOfResponse ==
    LET last == trace.full_conversation[Len(trace.full_conversation)]
    IN /\ last.role = "assistant"
       /\ last.content
             = parse_openai_response(resp.body, trace.stream).assistant_content

\* the conversation changes only in a finalize step, by one message at its end
OnlyFinalizeAppends ==
    (call' = call /\ Turns(trace'.full_conversation) /= Turns(trace.full_conversation))
    => /\ hist'.runs = hist.runs + 1
       /\ hist'.appends = hist.appends + 1
       /\ Turns(trace'.full_conversation)
             = Append(Turns(trace.full_conversation),
                      Turns(trace'.full_conversation)[Len(trace'.full_conversation)])

\* C25: before the finalize step has run the conversation is exactly the
\* request's messages in order; the assistant message of the response is
\* appended only by the finalize step, once, after the whole body was
\* captured, and it is the last element of the conversation
C25_AssistantAppendedByFinalize ==
    /\ [](call.made
            => /\ ConversationOfCall
               /\ hist.runs = 0 => hist.appends = 0
               /\ hist.appends <= 1
               /\ hist.appends = 1 => (BodyCaptured /\ EndsWithAssistantOfResponse))
    /\ [][OnlyFinalizeAppends]_vars

\* a three-turn request whose response was consumed and whose assistant
\* message is the fourth message of the conversation
C25_AssistantAppended ==
    /\ call.made
    /\ Len(call.request.body.messages) = 3
    /\ ConsumedToEnd
    /\ hist.appends = 1
    /\ Len(trace.full_conversation) = 4
    /\ trace.full_conversation[4].role = "assistant"
    /\ trace.full_conversation[4].content = <<"hello">>


\* C26: after the finalize step, token_count is set on at most one message,
\* and only on the assistant message the finalize step appended; the
\* messages that came from the request keep token_count unset
C26_OnlyAppendedMessageCounted ==
    (call.made /\ hist.runs >= 1)
    => \A i \in 1..Len(trace.full_conversation) :
          trace.full_conversation[i].token_count /= None
          => /\ hist.appends = 1
             /\ i = Len(trace.full_conversation)
             /\ i > Len(call.request.body.messages)


\* C27: after update_completeness the score and the missing list describe
\* the record as it then stands: the score times N is the number of populated
\* declared fields, missing_fields is exactly the other fields, and so
\* populated count + |missing_fields| = N
C27_CompletenessDescribesRecord ==
    legacy.trace.trace_updated_at
    => /\ legacy.trace.data_completeness_score
             = calculate_completeness_score(legacy.trace)
       /\ legacy.trace.missing_fields = get_missing_fields(legacy.trace)
       /\ calculate_completeness_score(legacy.trace) + Len(legacy.trace.missing_fields)
             = Len(DeclaredFields)

\* C27, last part: update_completeness called again with no other change
\* leaves the score unchanged
C27_SecondUpdateKeepsScore ==
    [][(legacy.trace.trace_updated_at /\ legacy'.trace = update_completeness(legacy.trace))
         => legacy'.trace.data_completeness_score = legacy.trace.data_completeness_score]_vars


\* C28: after TraceRepository.update(trace_id, t) the messages linked to
\* trace_id, read back in message_order, are exactly t.full_conversation in
\* order, whatever t's conversation and session_id are
C28_UpdateReplacesLinks ==
    trace_messages.last.op = "update"
    => read_messages(trace_messages.links, trace_messages.last.trace_id)
          = trace_messages.last.full_conversation


\* C28, last part: after an update whose conversation is empty no link of
\* the trace's earlier version is left
C28_NoStaleLinks ==
    (trace_messages.last.op = "update" /\ trace_messages.last.full_conversation = <<>>)
    => read_messages(trace_messages.links, trace_messages.last.trace_id) = <<>>


\* the stored rows of a session_id
SessionRowsOf(session_id) ==
    {i \in 1..Len(sessions.rows) : sessions.rows[i].session_id = session_id}

\* C29: every SessionRepository.create_or_update call succeeds without
\* raising, and afterwards the store holds exactly one row of the session_id,
\* which reflects the Session passed in this call
C29_SessionUpsert ==
    sessions.last.op = "create_or_update"
    => /\ sessions.last.raised = NoneStr
       /\ Cardinality(SessionRowsOf(sessions.last.session_id)) = 1
       /\ \A i \in SessionRowsOf(sessions.last.session_id) :
             sessions.rows[i] = sessions.last.session


\* C30: for every Message m whose content is None, a string or a list,
\* Message.from_dict(m.to_dict()) equals m, and for every TraceRecord t,
\* TraceRecord.from_dict(t.to_dict()) equals t
C30_RoundTrip ==
    fn.op \in {"Message.from_dict(to_dict)", "TraceRecord.from_dict(to_dict)"}
    => fn.output = fn.input

\* C30 for the contents that are not the text of a JSON list: these come
\* back as they were
C30_RoundTripOfOtherContents ==
    (/\ fn.op = "Message.from_dict(to_dict)"
     /\ ~(fn.input.content.type = "str" /\ json_loads_list(fn.input.content.value).ok))
    => fn.output = fn.input

====
